---- MODULE Spec2Model ----
(***************************************************************************)
(* A model of the multi-source data access layer of PlantApp               *)
(* (src/script.js): the cached, rate-limited by-id lookup getPlantDetails, *)
(* the random lookup getRandomPlant built on it, the fan-out search        *)
(* multiSourceSearch and the deduplicating merge combineSearchResults,     *)
(* and of the page handlers built on them: the Home tab's random buttons,  *)
(* the detail panel, the modal, the favorites list and the Browse search.  *)
(*                                                                         *)
(* Time is in milliseconds.  The clock is Date.now() counted from an       *)
(* origin placed StartClock ms before the page is loaded, so that the      *)
(* initial lastApiCallTime = 0 lies further back than any cooldown, as it  *)
(* does for a real epoch clock.                                            *)
(***************************************************************************)
EXTENDS Integers, Sequences, FiniteSets, TLC

VARIABLES
    clock,            \* Date.now()
    ticks,            \* number of clock advances so far (bounds the run)
    lsPayload,        \* localStorage["plant_<id>"], NULL when the key is absent
    lsTime,           \* localStorage["plant_<id>_time"], NULL when the key is absent
    lastApiCallTime,  \* script.js:786
    plantCache,       \* the in-memory Map of script.js:790 (ids it holds)
    calls,            \* the getPlantDetails / getRandomPlant invocations
    invocations,      \* number of invocations started so far (bounds the run)
    lastWrite,        \* per id: clock value at which the payload key was last written
    enabled,          \* API_SOURCES[s].enabled, script.js:15-19
    search,           \* the multiSourceSearch invocation: position, query, options
    promise,          \* per source: the promise pushed to searchPromises
    fetchCount,       \* per source: network calls issued
    response,         \* per source: what the provider answered
    results,          \* the results object of script.js:686
    combined,         \* what combineSearchResults gave for results
    raw,              \* a provider record handed to a normalizer, with its source
    normalized,       \* what the normalizer gave for raw
    favorites,        \* script.js:22, the in-memory list
    plantFavorites,   \* localStorage["plantFavorites"], NULL when the key is absent
    selectedPlant,    \* script.js:782
    currentHomePlant, \* script.js:783
    homeRequestInProgress,  \* script.js:784
    owner,            \* per invocation: the handler awaiting it
    mushroom,         \* the getRandomMushroom invocation of the Home tab
    modalContent,     \* what #modal-tab-content shows
    clicks,           \* number of user events so far (bounds the run)
    ignored,          \* number of Home clicks turned away by the lock
    browseSearchMode, \* script.js:785
    currentSearch,    \* script.js:780
    browse,           \* the search of the Browse tab: who serves it, with what page
    pagination        \* are the page controls of the Browse tab shown

detailVars == <<clock, ticks, lsPayload, lsTime, lastApiCallTime, plantCache,
                calls, invocations, lastWrite>>

searchVars == <<enabled, search, promise, fetchCount, response, results, combined>>

normalizeVars == <<raw, normalized>>

uiVars == <<favorites, plantFavorites, selectedPlant, currentHomePlant,
            homeRequestInProgress, owner, mushroom, modalContent, clicks,
            ignored, browseSearchMode, currentSearch, browse, pagination>>

browseVars == <<browseSearchMode, currentSearch, browse, pagination>>

vars == <<detailVars, searchVars, normalizeVars, uiVars>>

(* getItem of an absent key; every stored string is a non-empty tuple. *)
NULL == <<>>

-----------------------------------------------------------------------------
(* Program constants *)

TTL == 86400000
API_COOLDOWN_MS == 2000
RETRY_DELAY_MS == 500

(* Bounds of the model *)

MaxTicks == 3
MaxInvocations == 2
MaxRetries == 2
StartClock == 100000000

Calls == {"A", "B"}

(* The steps of the clock: the delays of the two timers in the short run;
   in the long run one millisecond, and a day less a millisecond while no
   invocation is running. *)
ShortSteps == {RETRY_DELAY_MS, API_COOLDOWN_MS}
LongStep == TTL - 1

-----------------------------------------------------------------------------
(* Identifiers.  A plant id is a native number (Perenual) or a string with a
   source prefix; it is modelled as the pair of its prefix and native part. *)

PerenualId(n) == [prefix |-> "", key |-> n]
PrefixedId(p, n) == [prefix |-> p, key |-> n]

CURATED_PLANT_IDS == <<PerenualId(1), PerenualId(2)>>

NonPerenualIds == {PrefixedId("inat_", 1)}

Ids == {CURATED_PLANT_IDS[i] : i \in 1..Len(CURATED_PLANT_IDS)} \cup NonPerenualIds

(* null passed as plantId (line 2897): it is no string, so it counts as a
   native id, and its cache key is "plant_null". *)
NullId == [prefix |-> "null", key |-> 0]

(* The ids that cache keys are made of. *)
Keys == Ids \cup {NullId}

isNonPerenual_Never(plantId) == FALSE

isNonPerenual(plantId) ==
    plantId.prefix \in {"inat_", "toxic_", "gbif_", "trefle_"}

-----------------------------------------------------------------------------
(* Strings.  A string is a sequence of characters; the alphabet has a lower
   and an upper case letter, a second letter and the blank, which is all
   that toLowerCase, trim, includes and the \s+ replacement tell apart. *)

Chars == {"a", "A", "b", " "}

LowerChar(ch) == IF ch = "A" THEN "a" ELSE ch

toLowerCase(str) == [i \in 1..Len(str) |-> LowerChar(str[i])]

RECURSIVE trimStart(_)
trimStart(str) ==
    IF str # <<>> /\ Head(str) = " " THEN trimStart(Tail(str)) ELSE str

RECURSIVE trimEnd(_)
trimEnd(str) ==
    IF str # <<>> /\ str[Len(str)] = " "
    THEN trimEnd(SubSeq(str, 1, Len(str) - 1)) ELSE str

trim(str) == trimEnd(trimStart(str))

includes(str, sub) ==
    \E i \in 1..(Len(str) + 1) :
        /\ i + Len(sub) - 1 <= Len(str)
        /\ SubSeq(str, i, i + Len(sub) - 1) = sub

(* str.replace(/\s+/g, '_'): every run of blanks becomes one underscore. *)
RECURSIVE replaceBlanks(_)
replaceBlanks(str) ==
    IF str = <<>> THEN <<>>
    ELSE IF Head(str) = " "
         THEN <<"_">> \o replaceBlanks(trimStart(str))
         ELSE <<Head(str)>> \o replaceBlanks(Tail(str))

(* A field of a provider record that should hold a name: undefined, a
   string, or (Perenual's scientific_name) an array of strings, of which the
   model keeps the first. *)
Absent == [kind |-> "absent", s |-> <<>>]
Str(str) == [kind |-> "str", s |-> str]
Arr(str) == [kind |-> "arr", s |-> str]

(* null, and an object that carries a url (which may be missing in it). *)
Null == [kind |-> "null", s |-> <<>>]
Obj(url) == [kind |-> "obj", s |-> url]

(* JavaScript truthiness: undefined, null and '' are falsy, an array and an
   object are truthy. *)
Truthy(v) == v.kind \in {"arr", "obj"} \/ (v.kind = "str" /\ v.s # <<>>)

(* a || b *)
Or(a, b) == IF Truthy(a) THEN a ELSE b

-----------------------------------------------------------------------------
(* Conversions between values and the strings localStorage holds. *)

JSONstringify(v) == <<"json", v>>
JSONparse(s) == s[2]
toString(n) == <<"str", n>>
parseInt(s) == s[2]

-----------------------------------------------------------------------------
(* formatPlantData, lines 164-238, and what it builds on.  Of a record the
   model keeps the id, the source tag, the two names, the description, the
   image url and the Wikipedia url. *)

PLACEHOLDER_IMG == Str(<<"M">>)

(* getWikipediaUrl, lines 346-351 *)
getWikipediaUrl(name) ==
    IF ~Truthy(name) THEN Null ELSE Str(<<"w">> \o replaceBlanks(name.s))

(* A species record of Perenual; default_image is an object or missing. *)
PlantData(id, common, scientific, description, image) ==
    [id |-> id, common_name |-> common, scientific_name |-> scientific,
     description |-> description, default_image |-> image]

(* The record that carries its id and nothing else. *)
BareData(id) == PlantData(id, Absent, Absent, Absent, Absent)

(* data.scientific_name?.join?.(', '): the joined array, undefined for
   anything that is not an array. *)
Joined(v) == IF v.kind = "arr" THEN Str(v.s) ELSE Absent

(* data.default_image?.regular_url || data.default_image?.original_url *)
UrlOf(v) == IF v.kind = "obj" THEN Str(v.s) ELSE Absent

formatPlantData(data) ==
    LET commonName == Or(data.common_name, Str(<<"U">>))
        scientificName == Or(Or(Joined(data.scientific_name), data.scientific_name),
                             Str(<<"N">>))
    IN [id |-> data.id,
        source |-> "perenual",
        common_name |-> commonName,
        scientific_name |-> scientificName,
        description |-> Or(data.description, Str(<<"D">>)),
        image_url |-> Or(UrlOf(data.default_image), PLACEHOLDER_IMG),
        wikipedia_url |-> Or(getWikipediaUrl(commonName), getWikipediaUrl(scientificName))]

-----------------------------------------------------------------------------
(* The cache test of getPlantDetails, lines 78-86 (and of getRandomPlant,
   lines 275-280). *)

CacheFresh_Inverted(cached, cacheTime, now) ==
    /\ cached # NULL
    /\ cacheTime # NULL
    /\ now - parseInt(cacheTime) >= TTL

CacheFresh(cached, cacheTime, now) ==
    /\ cached # NULL
    /\ cacheTime # NULL
    /\ now - parseInt(cacheTime) < TTL

-----------------------------------------------------------------------------
(* Values *)

NoValue == [id |-> PerenualId(0), source |-> "none"]

Returned(v, via) == [status |-> "returned", value |-> v, err |-> "none", via |-> via]
Threw(e) == [status |-> "threw", value |-> NoValue, err |-> e, via |-> "none"]
Pending == [status |-> "pending", value |-> NoValue, err |-> "none", via |-> "none"]

(* error.message.includes('rate limit'), script.js:300: of the messages the
   lookup can throw only the 429 message of line 125 contains the words. *)
IsRateLimitMessage_Any(e) == TRUE

IsRateLimitMessage(e) == e = "rateLimit"

IdleCall ==
    [pc |-> "idle", kind |-> "details", id |-> PerenualId(1), retries |-> 1,
     attempt |-> 0, now |-> 0, wake |-> 0, nreq |-> 0, got429 |-> FALSE,
     lastErr |-> "none", res |-> Pending, seq |-> 0]

(* What the server can answer to one request: a 2xx body carrying the id, a
   2xx body without id, 429, another non-2xx status, or no answer at all
   (fetch or response.json() rejects). *)
Responses == {"ok", "noid", "429", "status", "net"}

(* What localStorage.setItem can do in the two writes of lines 145-146. *)
StorageOutcomes == {"ok", "failPayload", "failTime"}

-----------------------------------------------------------------------------
(* The three providers, in the order in which combineSearchResults visits
   them, and their configuration. *)

Sources == <<"perenual", "inaturalist", "toxicshrooms">>

SourceSet == {Sources[i] : i \in 1..Len(Sources)}

API_SOURCES == [s \in SourceSet |-> TRUE]

(* A record as the search passes it on: the id (prefix, native number, name
   part), the source tag ("undefined" on a record that has no such field) and
   the two names. *)
RecordId(p, n, slug) == [prefix |-> p, key |-> n, slug |-> slug]

Item(id, source, common, scientific) ==
    [id |-> id, source |-> source, common_name |-> common,
     scientific_name |-> scientific]

(* The results object of multiSourceSearch as line 686 makes it. *)
EmptyResults ==
    [perenual |-> <<>>, inaturalist |-> <<>>, toxicshrooms |-> <<>>, total |-> 0]

DefaultOptions ==
    [includePerenual |-> TRUE, includeINaturalist |-> TRUE, includeFungi |-> FALSE]

IdleSearch == [pc |-> "idle", query |-> <<>>, opts |-> DefaultOptions]

NoResponse == [ok |-> FALSE, list |-> <<>>]

NotCombined == [status |-> "none", list |-> <<>>]

-----------------------------------------------------------------------------
InitDetails ==
    /\ clock = StartClock
    /\ ticks = 0
    /\ lsPayload = [i \in Keys |-> NULL]
    /\ lsTime = [i \in Keys |-> NULL]
    /\ lastApiCallTime = 0
    /\ plantCache = {}
    /\ calls = [c \in Calls |-> IdleCall]
    /\ invocations = 0
    /\ lastWrite = [i \in Keys |-> 0]

InitSearch ==
    /\ search = IdleSearch
    /\ promise = [s \in SourceSet |-> "none"]
    /\ fetchCount = [s \in SourceSet |-> 0]
    /\ response = [s \in SourceSet |-> NoResponse]
    /\ combined = NotCombined

(* No record has been handed to a normalizer. *)
NoRaw == [source |-> "perenual", data |-> BareData(PerenualId(0))]

NotNormalized == [status |-> "none"]

InitNormalizer ==
    /\ raw = NoRaw
    /\ normalized = NotNormalized

(* No search has been made on the Browse tab. *)
IdleBrowse ==
    [pc |-> "idle", by |-> "none", via |-> "none", asked |-> 0, page |-> 0, at |-> 0]

(* Lines 22 and 780-785 on a first visit: nothing stored, nothing chosen. *)
IdleMushroom == [pc |-> "idle", first |-> TRUE]

InitUi ==
    /\ favorites = <<>>
    /\ plantFavorites = NULL
    /\ selectedPlant = NULL
    /\ currentHomePlant = NULL
    /\ homeRequestInProgress = FALSE
    /\ owner = [c \in Calls |-> "none"]
    /\ mushroom = IdleMushroom
    /\ modalContent = "none"
    /\ clicks = 0
    /\ ignored = 0
    /\ browseSearchMode = "plants"
    /\ currentSearch = <<>>
    /\ browse = IdleBrowse
    /\ pagination = FALSE

Init ==
    /\ InitDetails
    /\ InitSearch
    /\ InitNormalizer
    /\ InitUi
    /\ enabled = API_SOURCES
    /\ results = EmptyResults

(* The deadlines of the running timers (setTimeout, lines 109, 129, 156). *)
PendingWakes ==
    {calls[c].wake : c \in {d \in Calls : calls[d].pc \in {"cooldown", "backoff"}}}

Quiescent == \A c \in Calls : calls[c].pc \in {"idle", "done"}

(* Time passes, by one of the steps in S or up to the next deadline; a timer
   that is due fires before time moves on. *)
Tick(S) ==
    /\ ticks < MaxTicks
    /\ \E t \in {clock + d : d \in S} \cup PendingWakes :
          /\ t > clock
          /\ \A w \in PendingWakes : t <= w
          /\ clock' = t
    /\ ticks' = ticks + 1
    /\ UNCHANGED <<lsPayload, lsTime, lastApiCallTime, plantCache, calls,
                   invocations, lastWrite>>
    /\ UNCHANGED searchVars
    /\ UNCHANGED normalizeVars

(* createPlantCard, script.js:879: a displayed record is remembered. *)
CreatePlantCard ==
    /\ \E i \in NonPerenualIds :
          /\ i \notin plantCache
          /\ plantCache' = plantCache \cup {i}
    /\ UNCHANGED <<clock, ticks, lsPayload, lsTime, lastApiCallTime, calls,
                   invocations, lastWrite>>
    /\ UNCHANGED searchVars
    /\ UNCHANGED normalizeVars

-----------------------------------------------------------------------------
(* getRandomPlant, lines 270-291: the ids it may pick. *)
FreshCuratedIds ==
    {CURATED_PLANT_IDS[i] : i \in
        {j \in 1..Len(CURATED_PLANT_IDS) :
            CacheFresh(lsPayload[CURATED_PLANT_IDS[j]],
                       lsTime[CURATED_PLANT_IDS[j]], clock)}}

RandomIdChoices_AnyCurated ==
    {CURATED_PLANT_IDS[i] : i \in 1..Len(CURATED_PLANT_IDS)}

RandomIdChoices ==
    IF FreshCuratedIds # {} THEN FreshCuratedIds
    ELSE {CURATED_PLANT_IDS[i] : i \in 1..Len(CURATED_PLANT_IDS)}

(* getRandomPlant, lines 303-318: the first curated id with any payload. *)
StaleScan ==
    LET have == {j \in 1..Len(CURATED_PLANT_IDS) :
                    lsPayload[CURATED_PLANT_IDS[j]] # NULL}
    IN IF have = {} THEN Threw("rateLimitNoCache")
       ELSE LET first == CHOOSE j \in have : \A k \in have : j <= k
            IN Returned(JSONparse(lsPayload[CURATED_PLANT_IDS[first]]), "stale")

(* The catch block of getRandomPlant, lines 297-321, applied to what
   getPlantDetails threw. *)
RandomCatch(e) ==
    IF IsRateLimitMessage(e) THEN StaleScan ELSE Threw(e)

(* How an invocation ends: getPlantDetails hands r to its caller, and
   getRandomPlant passes a value on and sends an error through its catch. *)
Finish(k, r) ==
    [k EXCEPT !.pc = "done", !.attempt = 0, !.now = 0, !.wake = 0, !.got429 = FALSE,
              !.res = IF k.kind = "random" /\ r.status = "threw"
                      THEN RandomCatch(r.err) ELSE r]

-----------------------------------------------------------------------------
(* getPlantDetails, lines 101-116: the head of one attempt.  It reads the
   clock into the attempt's own `now`, and either suspends for the rest of
   the cooldown or stamps lastApiCallTime and issues the request at once. *)

MustWait(now) == now - lastApiCallTime < API_COOLDOWN_MS

Waiting(k, a) ==
    [k EXCEPT !.pc = "cooldown", !.attempt = a, !.now = clock,
              !.wake = clock + (API_COOLDOWN_MS - (clock - lastApiCallTime))]

Fetching(k, a) ==
    [k EXCEPT !.pc = "fetch", !.attempt = a, !.now = clock, !.wake = 0,
              !.nreq = k.nreq + 1]

(* Lines 111-116, taken when no wait is needed or when the wait is over. *)
IssueRequest(c, k) ==
    /\ lastApiCallTime' = clock
    /\ calls' = [calls EXCEPT ![c] = k]

BeginAttempt(c, k, a) ==
    IF MustWait(clock)
    THEN /\ calls' = [calls EXCEPT ![c] = Waiting(k, a)]
         /\ UNCHANGED lastApiCallTime
    ELSE IssueRequest(c, Fetching(k, a))

(* The loop of line 101 entered with `retries`: with retries < 1 the body
   never runs and the function returns undefined. *)
EnterLoop(c, k) ==
    IF k.retries >= 1
    THEN BeginAttempt(c, k, 1)
    ELSE /\ calls' = [calls EXCEPT ![c] = Finish(k, Returned(NoValue, "none"))]
         /\ UNCHANGED lastApiCallTime

(* getPlantDetails(plantId, retries), lines 61-116, up to its first await;
   with kind "random" it is entered from getRandomPlant, lines 266-294,
   which picks the id and passes retries = 1.  The two slots are alike, so
   slot B is taken only by an invocation that starts while A is running. *)
Start(c, kind, plantId, retries) ==
    /\ calls[c].pc \in {"idle", "done"}
    /\ c = "B" => calls["A"].pc \notin {"idle", "done"}
    /\ invocations < MaxInvocations
    /\ invocations' = invocations + 1
    /\ kind = "random" => plantId \in RandomIdChoices /\ retries = 1
    /\ LET k == [IdleCall EXCEPT !.kind = kind, !.id = plantId, !.retries = retries,
                                 !.seq = invocations + 1]
       IN IF CacheFresh(lsPayload[plantId], lsTime[plantId], clock)
          THEN /\ calls' = [calls EXCEPT ![c] =
                              Finish(k, Returned(JSONparse(lsPayload[plantId]), "cache"))]
               /\ UNCHANGED lastApiCallTime
          ELSE IF isNonPerenual(plantId)
          THEN /\ calls' = [calls EXCEPT ![c] =
                              IF plantId \in plantCache
                              THEN Finish(k, Returned([id |-> plantId, source |-> "memory"], "memory"))
                              ELSE Finish(k, Threw("nonPerenual"))]
               /\ UNCHANGED lastApiCallTime
          ELSE EnterLoop(c, k)
    /\ UNCHANGED <<clock, ticks, lsPayload, lsTime, plantCache, lastWrite>>
    /\ UNCHANGED searchVars
    /\ UNCHANGED normalizeVars

(* The setTimeout of line 109 fires, no earlier than its delay. *)
CooldownFires(c) ==
    /\ calls[c].pc = "cooldown"
    /\ clock >= calls[c].wake
    /\ IssueRequest(c, [calls[c] EXCEPT !.pc = "fetch", !.wake = 0,
                                        !.nreq = calls[c].nreq + 1])
    /\ UNCHANGED <<clock, ticks, lsPayload, lsTime, plantCache, invocations, lastWrite>>
    /\ UNCHANGED searchVars
    /\ UNCHANGED normalizeVars

-----------------------------------------------------------------------------
(* getPlantDetails, lines 116-157: the response arrives. *)

(* The error of one failed attempt, by the line that throws it. *)
ErrorOf(resp) ==
    CASE resp = "429"    -> "rateLimit"   \* line 125
      [] resp = "status" -> "status"      \* line 128
      [] resp = "noid"   -> "invalid"     \* line 138
      [] OTHER           -> "net"         \* fetch or response.json() rejected

(* `attempt === retries`, lines 128 and 155. *)
LastAttempt_OffByOne(k) == k.attempt = k.retries + 1

LastAttempt(k) == k.attempt = k.retries

(* A failed attempt.  Line 128 throws on the last attempt and otherwise
   sleeps and continues; every throw inside the try, the 429 of line 125
   included, lands in the catch of lines 153-157, which rethrows on the
   last attempt and otherwise sleeps and lets the loop go on. *)
AfterFailure(k, resp) ==
    LET k1 == [k EXCEPT !.lastErr = ErrorOf(resp),
                        !.got429 = k.got429 \/ resp = "429"]
    IN IF LastAttempt(k1)
       THEN Finish(k1, Threw(ErrorOf(resp)))
       ELSE [k1 EXCEPT !.pc = "backoff", !.wake = clock + RETRY_DELAY_MS]

(* Lines 119 and 137: the response is taken when it is 2xx and its body
   carries an id. *)
ResponseAccepted_WithoutId(resp) == resp \in {"ok", "noid"}

ResponseAccepted(resp) == resp = "ok"

(* Lines 141-152: the two setItem calls inside their own try. *)
PayloadAfterWrite(k, formatted, st) ==
    IF st = "failPayload" THEN lsPayload
    ELSE [lsPayload EXCEPT ![k.id] = JSONstringify(formatted)]

TimeAfterWrite(k, st) ==
    IF st = "ok" THEN [lsTime EXCEPT ![k.id] = toString(k.now)]
    ELSE lsTime

(* Lines 147-152: the catch of line 148 warns about a failed write and the
   formatted record is returned all the same. *)
AfterWrite_Uncaught(k, formatted, st) ==
    IF st = "ok" THEN Finish(k, Returned(formatted, "network"))
    ELSE Finish(k, Threw("storage"))

AfterWrite(k, formatted, st) == Finish(k, Returned(formatted, "network"))

FetchSettles(c, resp, st) ==
    /\ calls[c].pc = "fetch"
    /\ LET k == calls[c]
           formatted == formatPlantData(BareData(k.id))
       IN IF ResponseAccepted(resp)
          THEN /\ lsPayload' = PayloadAfterWrite(k, formatted, st)
               /\ lsTime' = TimeAfterWrite(k, st)
               /\ lastWrite' = IF st = "failPayload" THEN lastWrite
                               ELSE [lastWrite EXCEPT ![k.id] = clock]
               /\ calls' = [calls EXCEPT ![c] = AfterWrite(k, formatted, st)]
          ELSE /\ st = "ok"
               /\ calls' = [calls EXCEPT ![c] = AfterFailure(k, resp)]
               /\ UNCHANGED <<lsPayload, lsTime, lastWrite>>
    /\ UNCHANGED <<clock, ticks, lastApiCallTime, plantCache, invocations>>
    /\ UNCHANGED searchVars
    /\ UNCHANGED normalizeVars

(* The 500 ms sleep of line 129 or 156 is over: the loop of line 101 steps
   to the next attempt, or falls out of the function when there is none. *)
BackoffFires(c) ==
    /\ calls[c].pc = "backoff"
    /\ clock >= calls[c].wake
    /\ LET k == calls[c]
           a == k.attempt + 1
       IN IF a <= k.retries
          THEN BeginAttempt(c, k, a)
          ELSE /\ calls' = [calls EXCEPT ![c] = Finish(k, Returned(NoValue, "none"))]
               /\ UNCHANGED lastApiCallTime
    /\ UNCHANGED <<clock, ticks, lsPayload, lsTime, plantCache, invocations, lastWrite>>
    /\ UNCHANGED searchVars
    /\ UNCHANGED normalizeVars

-----------------------------------------------------------------------------
StartDetails(C, I) ==
    \E c \in C, i \in I, r \in 1..MaxRetries : Start(c, "details", i, r)

StartRandom(C, I) ==
    \E c \in C, i \in I : Start(c, "random", i, 1)

TimerFires ==
    \E c \in Calls : CooldownFires(c) \/ BackoffFires(c)

ResponseArrives(R, S) ==
    \E c \in Calls, resp \in R, st \in S : FetchSettles(c, resp, st)

(* One invocation at a time, over days: the life of the cache. *)
NextCache ==
    \/ Tick(IF Quiescent THEN {1, LongStep} ELSE {1}) /\ UNCHANGED uiVars
    \/ CreatePlantCard /\ UNCHANGED uiVars
    \/ StartDetails({"A"}, Ids) /\ UNCHANGED uiVars
    \/ StartRandom({"A"}, Ids) /\ UNCHANGED uiVars
    \/ TimerFires /\ UNCHANGED uiVars
    \/ ResponseArrives(Responses, StorageOutcomes) /\ UNCHANGED uiVars

SpecCache == Init /\ [][NextCache]_vars

(* The short run looks at one primary id, at the responses that differ in
   how the retry loop treats them, and at storage that accepts every write. *)
RateIds == {PerenualId(1)}
RateResponses == {"ok", "429", "status", "net"}

(* Two invocations side by side, over seconds: cooldown and retries. *)
NextRate ==
    \/ Tick(ShortSteps) /\ UNCHANGED uiVars
    \/ StartDetails(Calls, RateIds) /\ UNCHANGED uiVars
    \/ TimerFires /\ UNCHANGED uiVars
    \/ ResponseArrives(RateResponses, {"ok"}) /\ UNCHANGED uiVars

SpecRate == Init /\ [][NextRate]_vars

-----------------------------------------------------------------------------
(* Provider records and their normalizers *)

MaxList == 2

ListsUpTo(S, n) == UNION {[1..k -> S] : k \in 0..n}

(* A species-list record of Perenual: the names may be missing, and the
   scientific name comes as an array (lines 166 and 871 unwrap it).  The
   search passes these records on as they are. *)
PerenualRecords ==
    { Item(RecordId("", 1, <<>>), "undefined", Str(<<"a">>), Arr(<<"a">>)),
      Item(RecordId("", 2, <<>>), "undefined", Str(<<"b">>), Str(<<"a">>)),
      Item(RecordId("", 3, <<>>), "undefined", Absent, Str(<<"A", " ">>)),
      Item(RecordId("", 4, <<>>), "undefined", Absent, Absent) }

(* A taxon of iNaturalist. *)
TaxonData(n, name, preferred, summary, observations, wikipedia, photo, photos) ==
    [id |-> n, name |-> name, preferred_common_name |-> preferred,
     wikipedia_summary |-> summary, observations |-> observations,
     wikipedia_url |-> wikipedia, default_photo |-> photo, taxon_photos |-> photos]

(* The taxon that carries its id and names and nothing else. *)
Taxon(n, name, preferred) ==
    TaxonData(n, name, preferred, Absent, Absent, Absent, Absent, Absent)

Taxa ==
    { Taxon(1, Str(<<"a">>), Absent),
      Taxon(2, Str(<<" ", "A">>), Str(<<"b">>)),
      Taxon(3, Absent, Str(<<"b">>)),
      Taxon(4, Absent, Absent) }

(* Lines 436-448: the url of default_photo, else of the first of
   taxon_photos, else the placeholder. *)
TaxonImage(taxon) ==
    IF Truthy(taxon.default_photo)
    THEN Or(UrlOf(taxon.default_photo), PLACEHOLDER_IMG)
    ELSE IF Truthy(taxon.taxon_photos)
    THEN Or(UrlOf(taxon.taxon_photos), PLACEHOLDER_IMG)
    ELSE PLACEHOLDER_IMG

formatINaturalistData(taxon) ==
    LET commonName == Or(taxon.preferred_common_name, taxon.name)
        scientificName == taxon.name
    IN [id |-> RecordId("inat_", taxon.id, <<>>),
        source |-> "inaturalist",
        common_name |-> commonName,
        scientific_name |-> scientificName,
        description |-> Or(Or(taxon.wikipedia_summary, taxon.observations), Null),
        image_url |-> TaxonImage(taxon),
        wikipedia_url |-> Or(Or(taxon.wikipedia_url, getWikipediaUrl(commonName)),
                             getWikipediaUrl(scientificName))]

(* A record of the Toxic Shrooms list. *)
ShroomData(name, commonname, img, agent, distribution) ==
    [name |-> name, commonname |-> commonname, img |-> img, agent |-> agent,
     distribution |-> distribution]

(* The record that carries its names and nothing else. *)
Shroom(name, commonname) == ShroomData(name, commonname, Absent, Absent, Absent)

Shrooms ==
    { Shroom(Str(<<"A">>), Absent),
      Shroom(Str(<<"b">>), Str(<<"a">>)),
      Shroom(Str(<<" ">>), Str(<<"b">>)),
      Shroom(Absent, Str(<<"a">>)) }

(* data.name.replace(...) of line 661 is a TypeError when name is missing. *)
formatToxicShroomDataThrows_Unguarded(data) ==
    data.name.kind # "str" \/ data.img.kind # "str"

formatToxicShroomDataThrows(data) == data.name.kind # "str"

(* Lines 632-643: a url of Wikimedia Commons ("c") or one that starts with
   http ("h") is kept, one that starts with // ("/") gets the scheme, any
   other gives the placeholder. *)
ShroomImage(img) ==
    IF ~Truthy(img) THEN PLACEHOLDER_IMG
    ELSE IF includes(img.s, <<"c">>) THEN img
    ELSE IF Head(img.s) = "/" THEN Str(<<"h">> \o img.s)
    ELSE IF Head(img.s) = "h" THEN img
    ELSE PLACEHOLDER_IMG

(* Lines 645-652, 'Unknown' being "K". *)
ShroomDistribution(d) ==
    IF d.kind = "arr" THEN (IF trim(d.s) # <<>> THEN Str(d.s) ELSE Str(<<"K">>))
    ELSE IF Truthy(d) THEN d
    ELSE Str(<<"K">>)

formatToxicShroomData(data) ==
    LET commonName == Or(data.commonname, data.name)
        scientificName == data.name
    IN [id |-> RecordId("toxic_", 0, replaceBlanks(data.name.s)),
        source |-> "toxicshrooms",
        common_name |-> commonName,
        scientific_name |-> scientificName,
        description |-> Str(<<"T">> \o Or(data.agent, Str(<<"K">>)).s
                              \o <<"D">> \o ShroomDistribution(data.distribution).s),
        image_url |-> ShroomImage(data.img),
        wikipedia_url |-> Or(getWikipediaUrl(commonName), getWikipediaUrl(scientificName))]

-----------------------------------------------------------------------------
(* multiSourceSearch(query, options), lines 678-743 *)

Queries == {<<>>, <<"A">>}

Options ==
    [includePerenual : BOOLEAN, includeINaturalist : BOOLEAN, includeFungi : BOOLEAN]

Included(s, opts) ==
    CASE s = "perenual" -> opts.includePerenual
      [] s = "inaturalist" -> opts.includeINaturalist
      [] s = "toxicshrooms" -> opts.includeFungi

(* The guards of lines 695, 707 and 719: is the call of source s made. *)
Pushed_WhateverTheFlag(s, opts) == Included(s, opts)

Pushed(s, opts) == Included(s, opts) /\ enabled[s]

(* The client of a source sends its request unless its own guard (lines 366
   and 515) returns first; getPlantList has no such guard. *)
SendsRequest(s) == s = "perenual" \/ enabled[s]

(* What the client's promise settles to.  getPlantList rejects on a failed
   request (lines 47-53); searchINaturalist and getToxicShrooms catch their
   failures and resolve to an empty answer (lines 406-412, 526-529). *)
ClientRejects(s, resp) == s = "perenual" /\ ~resp.ok

ClientData(s, resp) == IF resp.ok THEN resp.list ELSE <<>>

(* The filter of lines 724-728. *)
ShroomMatches(shroom, query) ==
    \/ Truthy(shroom.name)
         /\ includes(toLowerCase(shroom.name.s), toLowerCase(query))
    \/ Truthy(shroom.commonname)
         /\ includes(toLowerCase(shroom.commonname.s), toLowerCase(query))

Filtered(data, query) ==
    IF query # <<>> THEN SelectSeq(data, LAMBDA sh : ShroomMatches(sh, query))
    ELSE data

(* The then-handlers of lines 698-701, 711-713 and 722-730: do they throw,
   and what they assign to the list of the source when they do not. *)
HandlerThrows(s, data, query) ==
    /\ s = "toxicshrooms"
    /\ \E i \in 1..Len(Filtered(data, query)) :
          formatToxicShroomDataThrows(Filtered(data, query)[i])

HandlerList(s, data, query) ==
    CASE s = "perenual" -> data
      [] s = "inaturalist" ->
            [i \in 1..Len(data) |-> formatINaturalistData(data[i])]
      [] s = "toxicshrooms" ->
            [i \in 1..Len(Filtered(data, query)) |->
                formatToxicShroomData(Filtered(data, query)[i])]

(* data.total || 0 of line 700; the other handlers leave the total alone. *)
HandlerTotal(s, data) == IF s = "perenual" THEN Len(data) ELSE 0

(* The catch of lines 702, 714 and 731 turns a rejection into a fulfilled
   promise. *)
CatchWarn_Rethrows(rejected) == IF rejected THEN "rejected" ELSE "fulfilled"

CatchWarn(rejected) == "fulfilled"

(* Promise.all of line 736: rejected as soon as one member is, fulfilled
   when all are. *)
PromiseAll ==
    IF \E s \in SourceSet : promise[s] = "rejected" THEN "rejected"
    ELSE IF \E s \in SourceSet : promise[s] = "pending" THEN "pending"
    ELSE "fulfilled"

(* Lines 678-736: the synchronous part, up to the await. *)
StartSearch(query, opts) ==
    /\ search.pc = "idle"
    /\ search' = [pc |-> "awaiting", query |-> query, opts |-> opts]
    /\ results' = EmptyResults
    /\ promise' = [s \in SourceSet |->
                      IF ~Pushed(s, opts) THEN "none"
                      ELSE IF SendsRequest(s) THEN "pending"
                      ELSE "fulfilled"]
    /\ fetchCount' = [s \in SourceSet |->
                         IF Pushed(s, opts) /\ SendsRequest(s)
                         THEN fetchCount[s] + 1 ELSE fetchCount[s]]
    /\ UNCHANGED <<enabled, response, combined>>
    /\ UNCHANGED detailVars
    /\ UNCHANGED normalizeVars

(* The answer of source s arrives and its promise chain runs to the end. *)
SourceSettles(s, resp) ==
    /\ promise[s] = "pending"
    /\ response' = [response EXCEPT ![s] = resp]
    /\ LET data == ClientData(s, resp)
           rejected == ClientRejects(s, resp) \/ HandlerThrows(s, data, search.query)
       IN /\ results' = IF rejected THEN results
                        ELSE [results EXCEPT
                                 ![s] = HandlerList(s, data, search.query),
                                 !.total = @ + HandlerTotal(s, data)]
          /\ promise' = [promise EXCEPT ![s] = CatchWarn(rejected)]
    /\ UNCHANGED <<enabled, search, fetchCount, combined>>
    /\ UNCHANGED detailVars
    /\ UNCHANGED normalizeVars

(* Lines 736-742: the await is over, by fulfilment or by rejection, and the
   results object is returned. *)
SearchReturns ==
    /\ search.pc = "awaiting"
    /\ PromiseAll # "pending"
    /\ search' = [search EXCEPT !.pc = "returned"]
    /\ UNCHANGED <<enabled, promise, fetchCount, response, results, combined>>
    /\ UNCHANGED detailVars
    /\ UNCHANGED normalizeVars

(* The records an answer is made of in the runs of the search: for each
   source one with and one without a scientific name, and for the list that
   is filtered one more that the query does not match. *)
RawRecords(s) ==
    CASE s = "perenual" -> {r \in PerenualRecords : r.id.key \in {1, 4}}
      [] s = "inaturalist" -> {t \in Taxa : t.id \in {1, 3}}
      [] s = "toxicshrooms" -> {d \in Shrooms : d.name # Str(<<" ">>)}

ProviderResponses(s) ==
    {NoResponse} \cup {[ok |-> TRUE, list |-> l] : l \in ListsUpTo(RawRecords(s), MaxList)}

InitAnyConfiguration ==
    /\ InitDetails
    /\ InitUi
    /\ InitSearch
    /\ InitNormalizer
    /\ enabled \in [SourceSet -> BOOLEAN]
    /\ results = EmptyResults

StartsSearch == \E q \in Queries, o \in Options : StartSearch(q, o)

AnswerArrives == \E s \in SourceSet : \E r \in ProviderResponses(s) : SourceSettles(s, r)

NextSearch ==
    \/ StartsSearch /\ UNCHANGED uiVars
    \/ AnswerArrives /\ UNCHANGED uiVars
    \/ SearchReturns /\ UNCHANGED uiVars

SpecSearch == InitAnyConfiguration /\ [][NextSearch]_vars

-----------------------------------------------------------------------------
(* combineSearchResults(multiSourceResults), lines 748-773 *)

(* item.scientific_name || item.common_name || '' *)
KeySource(item) == Or(Or(item.scientific_name, item.common_name), Str(<<>>))

(* .toLowerCase() of line 756 exists on strings only. *)
KeyThrows(item) == KeySource(item).kind # "str"

Key(item) == trim(toLowerCase(KeySource(item).s))

(* { ...item, source } *)
Tagged(item, source) == [item EXCEPT !.source = source]

(* combined.push(record), lines 759 and 762 *)
Push_Front(list, record) == <<record>> \o list

Push(list, record) == Append(list, record)

(* addResults, lines 753-765, on the state (threw, combined, seen). *)
RECURSIVE addResults(_, _, _)
addResults(acc, list, source) ==
    IF acc.threw \/ list = <<>> THEN acc
    ELSE LET item == Head(list)
         IN IF KeyThrows(item) THEN [acc EXCEPT !.threw = TRUE]
            ELSE LET key == Key(item)
                     next ==
                         IF key # <<>> /\ key \notin acc.seen
                         THEN [acc EXCEPT !.seen = @ \cup {key},
                                          !.combined = Push(@, Tagged(item, source))]
                         ELSE IF key = <<>>
                         THEN [acc EXCEPT !.combined = Push(@, Tagged(item, source))]
                         ELSE acc
                 IN addResults(next, Tail(list), source)

RECURSIVE addAll(_, _, _)
addAll(acc, msr, i) ==
    IF i > Len(Sources) THEN acc
    ELSE addAll(addResults(acc, msr[Sources[i]], Sources[i]), msr, i + 1)

combineSearchResults(msr) ==
    LET end == addAll([threw |-> FALSE, combined |-> <<>>, seen |-> {}], msr, 1)
    IN IF end.threw THEN [status |-> "threw", list |-> <<>>]
       ELSE [status |-> "ok", list |-> end.combined]

(* The lists a search can hand over: Perenual's records as they came, the
   other two through their normalizers. *)
Normalizable(s) ==
    CASE s = "perenual" -> PerenualRecords
      [] s = "inaturalist" -> {formatINaturalistData(t) : t \in Taxa}
      [] s = "toxicshrooms" ->
            {formatToxicShroomData(d) : d \in {x \in Shrooms : ~formatToxicShroomDataThrows(x)}}

InitCombine ==
    /\ InitDetails
    /\ InitUi
    /\ InitSearch
    /\ InitNormalizer
    /\ enabled = API_SOURCES
    /\ \E p \in ListsUpTo(Normalizable("perenual"), MaxList),
          i \in ListsUpTo(Normalizable("inaturalist"), MaxList),
          t \in ListsUpTo(Normalizable("toxicshrooms"), MaxList) :
          results = [perenual |-> p, inaturalist |-> i, toxicshrooms |-> t,
                     total |-> Len(p)]

Combine ==
    /\ combined.status = "none"
    /\ combined' = combineSearchResults(results)
    /\ UNCHANGED <<enabled, search, promise, fetchCount, response, results>>
    /\ UNCHANGED detailVars
    /\ UNCHANGED normalizeVars

NextCombine == Combine /\ UNCHANGED uiVars

SpecCombine == InitCombine /\ [][NextCombine]_vars

-----------------------------------------------------------------------------
(* The normalizers on their own: a provider record, any of its fields
   present or missing, is handed to the normalizer of its source. *)

TextValues == {Absent, Str(<<"a">>)}

PlantDataRecords ==
    {PlantData(PerenualId(1), c, sc, d, im) :
        c \in TextValues, sc \in TextValues \cup {Arr(<<"a">>)}, d \in TextValues,
        im \in {Absent, Obj(<<>>), Obj(<<"h">>)}}

TaxonDataRecords ==
    {TaxonData(1, n, p, su, ob, w, ph, phs) :
        n \in TextValues, p \in TextValues, su \in TextValues, ob \in TextValues,
        w \in TextValues, ph \in {Absent, Obj(<<"h">>)}, phs \in {Absent, Obj(<<"h">>)}}

ShroomDataRecords ==
    {ShroomData(n, c, im, ag, di) :
        n \in {Absent, Str(<<>>), Str(<<"a", " ", "b">>)}, c \in TextValues,
        im \in {Absent, Str(<<"h">>), Str(<<"/">>), Str(<<"x">>), Str(<<"c">>)},
        ag \in TextValues,
        di \in {Absent, Str(<<"a">>), Arr(<<"a">>), Arr(<<" ">>)}}

RawInputs ==
    {[source |-> "perenual", data |-> d] : d \in PlantDataRecords}
        \cup {[source |-> "inaturalist", data |-> d] : d \in TaxonDataRecords}
        \cup {[source |-> "toxicshrooms", data |-> d] : d \in ShroomDataRecords}

NormalizerThrows(source, data) ==
    source = "toxicshrooms" /\ formatToxicShroomDataThrows(data)

NormalizerRecord(source, data) ==
    CASE source = "perenual" -> formatPlantData(data)
      [] source = "inaturalist" -> formatINaturalistData(data)
      [] source = "toxicshrooms" -> formatToxicShroomData(data)

InitNormalize ==
    /\ InitDetails
    /\ InitUi
    /\ InitSearch
    /\ enabled = API_SOURCES
    /\ results = EmptyResults
    /\ raw \in RawInputs
    /\ normalized = NotNormalized

Normalize ==
    /\ normalized.status = "none"
    /\ normalized' = IF NormalizerThrows(raw.source, raw.data)
                     THEN [status |-> "threw"]
                     ELSE [status |-> "returned",
                           record |-> NormalizerRecord(raw.source, raw.data)]
    /\ UNCHANGED raw
    /\ UNCHANGED detailVars
    /\ UNCHANGED searchVars

NextNormalize == Normalize /\ UNCHANGED uiVars

SpecNormalize == InitNormalize /\ [][NextNormalize]_vars

-----------------------------------------------------------------------------
(* The by-id lookup under any configuration of API_SOURCES: one invocation
   at a time of getPlantDetails for a primary id, over seconds. *)
NextConfigured ==
    \/ Tick(ShortSteps) /\ UNCHANGED uiVars
    \/ StartDetails({"A"}, RateIds) /\ UNCHANGED uiVars
    \/ TimerFires /\ UNCHANGED uiVars
    \/ ResponseArrives(RateResponses, {"ok"}) /\ UNCHANGED uiVars

SpecConfigured == InitAnyConfiguration /\ [][NextConfigured]_vars

-----------------------------------------------------------------------------
(* Properties of getPlantDetails and getRandomPlant *)

(* Slot c is entered by a new invocation in this step. *)
Entered(c) == calls'[c].seq = invocations + 1 /\ invocations' = invocations + 1

(* Slot c sends a request to the primary source in this step. *)
Requests(c) == calls[c].pc # "fetch" /\ calls'[c].pc = "fetch"

(* The stored entry of id i is complete and younger than 24 h. *)
HasFreshEntry(i) ==
    /\ lsPayload[i] # NULL
    /\ lsTime[i] # NULL
    /\ clock - lsTime[i][2] <= TTL - 1

(* C1: a lookup that finds a fresh entry returns that payload in the very
   step it is entered: it sends no request, never waits for the cooldown,
   and leaves lastApiCallTime and both cache keys as they were. *)
C1_CacheHitShortCircuits ==
    [][\A c \in Calls :
          (Entered(c) /\ HasFreshEntry(calls'[c].id)) =>
             /\ calls'[c].pc = "done"
             /\ calls'[c].res = Returned(lsPayload[calls'[c].id][2], "cache")
             /\ calls'[c].nreq = 0
             /\ \A d \in Calls : ~Requests(d)
             /\ UNCHANGED <<lastApiCallTime, lsPayload, lsTime>>]_vars

C1_Witness ==
    \E c \in Calls :
        /\ calls[c].pc = "done"
        /\ calls[c].res.via = "cache"
        /\ calls[c].res.value.id = calls[c].id
        /\ lastApiCallTime > 0

(* C2: an entry whose payload was written at time t is served at every read
   time up to t + TTL - 1 and is passed over from t + TTL on. *)
C2_TTLBoundaryFromWrite ==
    [][\A c \in Calls :
          LET i == calls'[c].id
          IN (Entered(c) /\ lsPayload[i] # NULL /\ lsTime[i] # NULL) =>
                /\ clock <= lastWrite[i] + TTL - 1 => calls'[c].res.via = "cache"
                /\ clock >= lastWrite[i] + TTL => calls'[c].res.via # "cache"]_vars

(* C3: a lookup that has received a 429 is over: it is not sleeping before
   another attempt, waiting for the cooldown or awaiting another response. *)
C3_NoRetryAfter429 ==
    \A c \in Calls : ~calls[c].got429

(* C4: a lookup with retries = n sends at most n requests; after the n-th
   failure it neither sleeps nor waits for another attempt, and a lookup
   all of whose responses failed ends by throwing the last error. *)
C4_RetryBound ==
    \A c \in Calls :
        LET k == calls[c]
        IN k.kind = "details" =>
              /\ k.nreq <= k.retries
              /\ k.pc \in {"backoff", "cooldown"} => k.nreq < k.retries
              /\ (k.pc = "done" /\ k.lastErr # "none" /\ k.res.via # "network")
                    => k.res = Threw(k.lastErr)

C4_Witness ==
    \E c \in Calls :
        /\ calls[c].pc = "done"
        /\ calls[c].kind = "details"
        /\ calls[c].retries = MaxRetries
        /\ calls[c].nreq = MaxRetries
        /\ calls[c].res = Threw("net")

(* C5: every request to the primary source is sent at least API_COOLDOWN_MS
   after the request before it (lastApiCallTime is the time of that one). *)
C5_MinSpacing ==
    [][\A c \in Calls :
          Requests(c) => clock - lastApiCallTime >= API_COOLDOWN_MS]_vars

(* C6: a lookup for id X whose last response is a 429 while a payload for X
   is stored returns that payload instead of throwing. *)
C6_StaleFallback ==
    [][\A c \in Calls :
          LET i == calls[c].id
          IN (/\ calls[c].pc = "fetch"
              /\ calls'[c].pc = "done"
              /\ calls'[c].lastErr = "rateLimit"
              /\ calls'[c].res.via # "network"
              /\ lsPayload[i] # NULL
              /\ lsTime[i] # NULL
              /\ clock - lsTime[i][2] >= TTL) =>
                 /\ calls'[c].res.status = "returned"
                 /\ calls'[c].res.value = lsPayload[i][2]]_vars

-----------------------------------------------------------------------------
(* Properties of multiSourceSearch *)

Settled(s) == promise[s] \in {"fulfilled", "rejected"}

CallFailed(s) == Settled(s) /\ ~response[s].ok

CallSucceeded(s) == Settled(s) /\ response[s].ok

(* The records of its answer that the search asked source s for. *)
Returned_By(s) ==
    IF s = "toxicshrooms" THEN Filtered(response[s].list, search.query)
    ELSE response[s].list

ScientificNameOf(s, rec) ==
    IF s = "perenual" THEN rec.scientific_name ELSE rec.name

(* C7: when multiSourceSearch has returned, whichever calls failed, every
   source whose call failed contributes an empty list and every source whose
   call succeeded contributes the records it returned, one for one. *)
C7_PartialFailureIsolation ==
    search.pc = "returned" =>
        \A s \in SourceSet :
            /\ CallFailed(s) => results[s] = <<>>
            /\ CallSucceeded(s) =>
                  /\ Len(results[s]) = Len(Returned_By(s))
                  /\ \A i \in 1..Len(results[s]) :
                        results[s][i].scientific_name
                            = ScientificNameOf(s, Returned_By(s)[i])

(* C8: once multiSourceSearch awaits, the call of every enabled, included
   source has been started; it returns only when no started call is still
   outstanding; and the failure of one call changes no other call and does
   not end the search. *)
C8_JoinNotRace ==
    [][ /\ search'.pc # "idle" =>
              \A s \in SourceSet :
                  enabled[s] /\ Included(s, search'.opts) => promise'[s] # "none"
        /\ search'.pc = "returned" =>
              \A s \in SourceSet : promise'[s] # "pending"
        /\ \A s \in SourceSet :
              promise[s] = "pending" /\ promise'[s] # "pending" /\ ~response'[s].ok =>
                  /\ search'.pc = search.pc
                  /\ \A t \in SourceSet \ {s} : promise'[t] = promise[t]
      ]_vars

(* A search has returned in which one call failed and another brought
   records. *)
C8_Witness ==
    /\ search.pc = "returned"
    /\ \E s, t \in SourceSet :
          /\ CallFailed(s)
          /\ CallSucceeded(t)
          /\ results[t] # <<>>

(* C9: a disabled source gets no network call and contributes an empty
   list, whatever the options; every enabled, included source gets exactly
   one call. *)
C9_DisabledSourceSkipped ==
    /\ \A s \in SourceSet :
          ~enabled[s] => fetchCount[s] = 0 /\ results[s] = <<>>
    /\ search.pc # "idle" =>
          \A s \in SourceSet :
              enabled[s] /\ Included(s, search.opts) => fetchCount[s] = 1

(* A search has returned that included a disabled source and called an
   enabled one. *)
C9_Witness ==
    /\ search.pc = "returned"
    /\ \E s, t \in SourceSet :
          /\ ~enabled[s]
          /\ Included(s, search.opts)
          /\ enabled[t]
          /\ fetchCount[t] = 1
          /\ results[t] # <<>>

-----------------------------------------------------------------------------
(* Properties of combineSearchResults *)

(* The input in the order of the visit, each record with the tag of its
   list. *)
RECURSIVE Visit(_, _)
Visit(msr, i) ==
    IF i > Len(Sources) THEN <<>>
    ELSE [j \in 1..Len(msr[Sources[i]]) |-> Tagged(msr[Sources[i]][j], Sources[i])]
            \o Visit(msr, i + 1)

NamePresent(v) == v.kind # "absent" /\ v.s # <<>>

(* The dedup key as stated: the scientific name, or the common name when
   there is no scientific name, lower-cased and trimmed. *)
StatedKey(item) ==
    LET name == IF NamePresent(item.scientific_name) THEN item.scientific_name
                ELSE item.common_name
    IN trim(toLowerCase(name.s))

FirstWith(seq, key) ==
    CHOOSE i \in 1..Len(seq) :
        /\ StatedKey(seq[i]) = key
        /\ \A j \in 1..(i - 1) : StatedKey(seq[j]) # key

(* C10: combineSearchResults gives an output in which every non-empty key of
   the input occurs on exactly one record, and that record is the first one
   with the key in the order perenual, inaturalist, toxicshrooms. *)
C10_FirstSeenWins ==
    combined.status # "none" =>
        /\ combined.status = "ok"
        /\ LET input == Visit(results, 1)
               output == combined.list
           IN \A i \in 1..Len(input) :
                 LET key == StatedKey(input[i])
                 IN key # <<>> =>
                       /\ Cardinality({j \in 1..Len(output) :
                                          StatedKey(output[j]) = key}) = 1
                       /\ \E j \in 1..Len(output) :
                             output[j] = input[FirstWith(input, key)]

(* A name that is absent, empty or made of blanks only. *)
Blank(v) == v.kind = "absent" \/ (v.kind = "str" /\ trim(v.s) = <<>>)

Nameless(item) == Blank(item.scientific_name) /\ Blank(item.common_name)

(* C11: every record of the input with neither a scientific nor a common
   name is in the output of combineSearchResults, so the output has as many
   such records as the input; and a record without a scientific name is in
   the output unless an earlier record has its key, so two such records
   with different common names are both kept. *)
C11_NamelessKept ==
    combined.status # "none" =>
        LET input == Visit(results, 1)
            output == combined.list
        IN /\ Cardinality({j \in 1..Len(output) : Nameless(output[j])})
                 = Cardinality({i \in 1..Len(input) : Nameless(input[i])})
           /\ \A i \in 1..Len(input) :
                 Nameless(input[i]) => \E j \in 1..Len(output) : output[j] = input[i]
           /\ \A i \in 1..Len(input) :
                 /\ ~NamePresent(input[i].scientific_name)
                 /\ \A h \in 1..(i - 1) : StatedKey(input[h]) # StatedKey(input[i])
                 => \E j \in 1..Len(output) : output[j] = input[i]

RECURSIVE IsSubsequence(_, _)
IsSubsequence(a, b) ==
    IF a = <<>> THEN TRUE
    ELSE IF b = <<>> THEN FALSE
    ELSE IF Head(a) = Head(b) THEN IsSubsequence(Tail(a), Tail(b))
    ELSE IsSubsequence(a, Tail(b))

(* C12: the output of combineSearchResults is a subsequence of the perenual
   list followed by the inaturalist list followed by the toxicshrooms list,
   each record tagged with its list; and the same input gives the same
   output again. *)
C12_OutputOrder ==
    combined.status = "ok" =>
        /\ IsSubsequence(combined.list, Visit(results, 1))
        /\ combineSearchResults(results) = combined

(* An output with records of two sources, one record of the input dropped. *)
C12_Witness ==
    /\ combined.status = "ok"
    /\ Len(combined.list) < Len(Visit(results, 1))
    /\ \E i, j \in 1..Len(combined.list) :
          i < j /\ combined.list[i].source # combined.list[j].source

-----------------------------------------------------------------------------
(* Properties of the persisted cache *)

FailedResponses == Responses \ {"ok"}

(* C13: a step of getPlantDetails changes the payload or the timestamp of a
   key only when it takes a 2xx response that carried an id, for that key
   and after formatting it; when the response is a non-2xx one, a 429, a
   network failure or one without an id, both entries of the key are
   unchanged. *)
C13_WriteOnlyAfterSuccess ==
    [][ /\ \A c \in Calls, resp \in FailedResponses :
              FetchSettles(c, resp, "ok") =>
                  lsPayload' = lsPayload /\ lsTime' = lsTime
        /\ \A i \in Ids :
              lsPayload'[i] # lsPayload[i] \/ lsTime'[i] # lsTime[i] =>
                  \E c \in Calls, st \in StorageOutcomes :
                      /\ FetchSettles(c, "ok", st)
                      /\ calls[c].id = i
                      /\ lsPayload'[i] = JSONstringify(formatPlantData(BareData(i)))
      ]_vars

(* A call has ended in an error while the entry of its key, stored earlier,
   is still there. *)
C13_Witness ==
    \E c \in Calls :
        /\ calls[c].pc = "done"
        /\ calls[c].res.status = "threw"
        /\ calls[c].nreq > 0
        /\ lsPayload[calls[c].id] # NULL
        /\ lsTime[calls[c].id] # NULL

(* C14: when setItem throws for the payload or for the timestamp, the call
   still ends by returning the formatted record of the response. *)
C14_StorageFailureHarmless ==
    [][ \A c \in Calls, st \in StorageOutcomes \ {"ok"} :
            FetchSettles(c, "ok", st) =>
                /\ calls'[c].pc = "done"
                /\ calls'[c].res = Returned(formatPlantData(BareData(calls[c].id)), "network")
      ]_vars

(* A call has returned the record of the network while a write failed: the
   key has no timestamp. *)
C14_Witness ==
    \E c \in Calls :
        /\ calls[c].pc = "done"
        /\ calls[c].res.status = "returned"
        /\ calls[c].res.via = "network"
        /\ lsTime[calls[c].id] = NULL

-----------------------------------------------------------------------------
(* Properties of the normalizers *)

(* The records of the answer of s that its normalizer takes, normalized. *)
NormalizedSurvivors(s) ==
    IF s = "toxicshrooms"
    THEN LET good == SelectSeq(Returned_By(s),
                               LAMBDA d : ~formatToxicShroomDataThrows(d))
         IN [i \in 1..Len(good) |-> formatToxicShroomData(good[i])]
    ELSE [i \in 1..Len(Returned_By(s)) |-> formatINaturalistData(Returned_By(s)[i])]

(* C15: when multiSourceSearch has returned, the list of a source whose
   answer held a record that cannot be normalized is made of the normalized
   forms of all the other records of that answer. *)
C15_MalformedCostsItself ==
    search.pc = "returned" =>
        \A s \in {"inaturalist", "toxicshrooms"} :
            CallSucceeded(s) => results[s] = NormalizedSurvivors(s)

(* The one field a normalizer cannot do without: the name of a
   toxic-shroom record, from which its id is made. *)
RequiredPresent(r) ==
    r.source = "toxicshrooms" => r.data.name.kind = "str"

(* C16: handed a record in which optional fields, any of them or all, are
   missing, each of the three normalizers returns a record and does not
   throw. *)
C16_NormalizerTotal ==
    normalized.status # "none" /\ RequiredPresent(raw) =>
        normalized.status = "returned"

(* Each normalizer has returned a record for an input with every optional
   field missing; shown for the toxic-shroom record that has its name only. *)
C16_Witness ==
    /\ normalized.status = "returned"
    /\ raw.source = "toxicshrooms"
    /\ raw.data = Shroom(Str(<<"a", " ", "b">>), Absent)

UiFields == {"description", "image_url", "wikipedia_url", "common_name", "scientific_name"}

(* C17: in every record a normalizer returns, the description, the image
   url, the Wikipedia url and both names are defined and not null. *)
C17_NoNullReachesUi ==
    normalized.status = "returned" =>
        \A f \in UiFields : normalized.record[f].kind \notin {"absent", "null"}

-----------------------------------------------------------------------------
(* Properties of the boundaries *)

(* C18: when multiSourceSearch has returned, every record of every list
   comes from the normalizer of its source: it carries the tag of that
   source, and no name in it is still an array. *)
C18_NormalizerIsBoundary ==
    search.pc = "returned" =>
        \A s \in SourceSet : \A i \in 1..Len(results[s]) :
            /\ results[s][i].source = s
            /\ results[s][i].scientific_name.kind # "arr"
            /\ results[s][i].common_name.kind # "arr"

(* C19: a getPlantDetails entered for a primary id while perenual is
   disabled ends in that very step by throwing, without a request. *)
C19_DisabledLookupFailsLoudly ==
    [][ \A c \in Calls :
            /\ Entered(c)
            /\ ~enabled["perenual"]
            /\ ~isNonPerenual(calls'[c].id)
            => /\ calls'[c].pc = "done"
               /\ calls'[c].res.status = "threw"
               /\ calls'[c].nreq = 0
               /\ ~Requests(c)
      ]_vars

(* C20: in every state the payload of a key is there exactly when its
   timestamp is, and a step that writes the payload of a key writes the
   timestamp of that key as well, with the time of the same call. *)
C20_EntriesPaired ==
    [][ /\ \A i \in Ids : (lsPayload'[i] # NULL) <=> (lsTime'[i] # NULL)
        /\ \A i \in Ids :
              lastWrite'[i] # lastWrite[i] =>
                  \E c \in Calls :
                      /\ calls[c].pc = "fetch"
                      /\ calls[c].id = i
                      /\ lsTime'[i] = toString(calls[c].now)
      ]_vars

-----------------------------------------------------------------------------
(* getRandomPlant, script.js:266-322 *)

RandomDone(c) == calls[c].kind = "random" /\ calls[c].pc = "done"

(* C21: getRandomPlant returns a payload of the stale scan only in the step
   in which its one request was answered by 429 while no curated id had a
   fresh entry; when the request fails in any other way the call throws
   that error and returns nothing. *)
C21_StaleOnlyAfterRateLimit ==
    [][ \A c \in Calls :
          calls'[c].kind = "random" /\ calls[c].pc # "done"
                                    /\ calls'[c].pc = "done" =>
            /\ (calls'[c].res.status = "returned"
                    /\ calls'[c].res.via = "stale") =>
                  /\ calls[c].pc = "fetch"
                  /\ calls'[c].lastErr = "rateLimit"
                  /\ calls'[c].nreq = 1
                  /\ FreshCuratedIds = {}
            /\ calls'[c].lastErr \in {"status", "invalid", "net"} =>
                  calls'[c].res = Threw(calls'[c].lastErr)
      ]_vars

C21_Witness ==
    \E c \in Calls :
        /\ RandomDone(c)
        /\ calls[c].res.status = "returned"
        /\ calls[c].res.via = "stale"
        /\ calls[c].nreq = 1

(* C22: an invocation of getRandomPlant never issues more than one request,
   and one entered while some curated id has a fresh entry ends in that
   step, from the cache, without any request. *)
C22_AtMostOneRequest ==
    [][ \A c \in Calls :
          /\ calls'[c].kind = "random" => calls'[c].nreq <= 1
          /\ (Entered(c) /\ calls'[c].kind = "random"
                         /\ FreshCuratedIds # {}) =>
                /\ calls'[c].pc = "done"
                /\ calls'[c].nreq = 0
                /\ calls'[c].res.status = "returned"
                /\ calls'[c].res.via = "cache"
                /\ ~Requests(c)
      ]_vars

C22_Witness ==
    \E c \in Calls :
        /\ RandomDone(c)
        /\ calls[c].nreq = 0
        /\ calls[c].res.status = "returned"
        /\ calls[c].res.via = "cache"
        /\ FreshCuratedIds # {}
        /\ \E i \in 1..Len(CURATED_PLANT_IDS) :
              CURATED_PLANT_IDS[i] \notin FreshCuratedIds

-----------------------------------------------------------------------------
(* getPlantDetails with a prefixed id, script.js:64-98 *)

NonPrimaryPrefixes == {"inat_", "toxic_", "gbif_", "trefle_"}

(* C24: a getPlantDetails entered with an id of a non-primary prefix ends in
   that step without a request, leaves lastApiCallTime and both cache keys
   of every id as they were, and gives the fresh stored entry if there is
   one, else the plantCache entry, else throws. *)
C24_PrefixedIdStaysLocal ==
    [][ \A c \in Calls :
          (Entered(c) /\ calls'[c].id.prefix \in NonPrimaryPrefixes) =>
            LET i == calls'[c].id
            IN /\ calls'[c].pc = "done"
               /\ calls'[c].nreq = 0
               /\ ~Requests(c)
               /\ UNCHANGED <<lastApiCallTime, lsPayload, lsTime, lastWrite>>
               /\ calls'[c].res =
                     IF CacheFresh(lsPayload[i], lsTime[i], clock)
                     THEN Returned(JSONparse(lsPayload[i]), "cache")
                     ELSE IF i \in plantCache
                     THEN Returned([id |-> i, source |-> "memory"], "memory")
                     ELSE Threw("nonPerenual")
      ]_vars

C24_Witness ==
    \E c \in Calls :
        /\ calls[c].pc = "done"
        /\ calls[c].id.prefix \in NonPrimaryPrefixes
        /\ calls[c].res.status = "returned"
        /\ calls[c].res.via = "memory"
        /\ calls[c].nreq = 0

-----------------------------------------------------------------------------
(* The handlers of the page that await a lookup *)

MaxClicks == 3

(* The invocation in slot c ends in this step. *)
Finishing(c) ==
    /\ calls'[c].pc = "done"
    /\ calls[c].pc # "done" \/ calls'[c].seq # calls[c].seq

(* The flag as the Home handler leaves it when it ends: line 2213 or 2421
   after the try, line 2240 or 2449 in the catch. *)
LockAfter_SuccessOnly(status) == status # "returned"

LockAfter(status) == FALSE

(* What runs after `await getRandomPlant()` (lines 2179-2241),
   `await getPlantDetails(plantId)` of loadPlantDetails (lines 1010-1076)
   and of openPlantModal (lines 1786-1829) once the awaited invocation has
   ended.  own, lock, sel and content are owner, homeRequestInProgress,
   selectedPlant and modalContent as the synchronous part of the step left
   them.  Both branches of the Home handler end with
   homeRequestInProgress = false (lines 2213 and 2240); the panel and the
   modal assign selectedPlant when the lookup returned (lines 1028, 1789). *)
Resume(own, lock, sel, content) ==
    LET fin == {c \in Calls : own[c] # "none" /\ Finishing(c)}
        got(c) == calls'[c].res.status = "returned"
        home == {c \in fin : own[c] = "home"}
        views == {c \in fin : own[c] \in {"panel", "modal"}}
        modals == {c \in fin : own[c] = "modal"}
    IN /\ owner' = [c \in Calls |-> IF c \in fin THEN "none" ELSE own[c]]
       /\ homeRequestInProgress' =
             IF home = {} THEN lock
             ELSE LockAfter(calls'[CHOOSE c \in home : TRUE].res.status)
       /\ currentHomePlant' =
             IF \E c \in home : got(c)
             THEN calls'[CHOOSE c \in home : got(c)].res.value
             ELSE currentHomePlant
       /\ selectedPlant' =
             IF \E c \in views : got(c)
             THEN calls'[CHOOSE c \in views : got(c)].res.value
             ELSE sel
       /\ modalContent' =
             IF modals = {} THEN content
             ELSE IF \E c \in modals : got(c) THEN "plant" ELSE "error"

(* A step of a lookup that some handler may be awaiting. *)
LookupStep(A) ==
    /\ A
    /\ Resume(owner, homeRequestInProgress, selectedPlant, modalContent)
    /\ UNCHANGED <<favorites, plantFavorites, mushroom, clicks, ignored>>
    /\ UNCHANGED browseVars

-----------------------------------------------------------------------------
(* The Home tab: handleHomeRandomPlant (lines 2149-2242),
   handleHomeRandomMushroom (lines 2313-2451), getRandomMushroom
   (lines 597-628) *)

(* The guard of lines 2150 and 2314. *)
Locked_Never == FALSE

Locked == homeRequestInProgress

(* A click on "Random Plant".  The elements looked up in lines 2156-2168
   are part of the page, so the safety check passes. *)
handleHomeRandomPlant ==
    /\ clicks < MaxClicks
    /\ clicks' = clicks + 1
    /\ IF Locked
       THEN /\ ignored' = ignored + 1
            /\ UNCHANGED <<detailVars, searchVars, normalizeVars>>
            /\ UNCHANGED <<favorites, plantFavorites, selectedPlant, currentHomePlant,
                           homeRequestInProgress, owner, mushroom, modalContent>>
       ELSE /\ \E c \in Calls, i \in RandomIdChoices :
                  /\ Start(c, "random", i, 1)
                  /\ Resume([owner EXCEPT ![c] = "home"], TRUE, selectedPlant,
                            modalContent)
            /\ UNCHANGED <<favorites, plantFavorites, mushroom, ignored>>
    /\ UNCHANGED browseVars

(* What a mushroom provider answers: a record, or nothing usable (the
   request failed, the status was not 2xx, or the list was empty). *)
NoAnswer == [failed |-> TRUE]

HomeTaxa == {Taxon(1, Str(<<"a">>), Absent)}

HomeShrooms == {Shroom(Str(<<"A">>), Absent), Shroom(Absent, Str(<<"a">>))}

(* A click on "Random Mushroom": lines 2314-2341 and the choice of the
   first provider in getRandomMushroom, lines 599-626. *)
handleHomeRandomMushroom ==
    /\ clicks < MaxClicks
    /\ clicks' = clicks + 1
    /\ ignored' = IF Locked THEN ignored + 1 ELSE ignored
    /\ IF Locked
       THEN UNCHANGED <<homeRequestInProgress, mushroom>>
       ELSE \E useINaturalist \in BOOLEAN :
               IF useINaturalist /\ enabled["inaturalist"]
               THEN /\ mushroom' = [pc |-> "inat", first |-> TRUE]
                    /\ homeRequestInProgress' = TRUE
               ELSE IF enabled["toxicshrooms"]
               THEN /\ mushroom' = [pc |-> "toxic", first |-> TRUE]
                    /\ homeRequestInProgress' = TRUE
               ELSE /\ mushroom' = IdleMushroom       \* line 626, caught at 2423
                    /\ homeRequestInProgress' = LockAfter("threw")
    /\ UNCHANGED <<detailVars, searchVars, normalizeVars>>
    /\ UNCHANGED <<favorites, plantFavorites, selectedPlant, currentHomePlant,
                   owner, modalContent>>
    /\ UNCHANGED browseVars

(* Does the provider asked give a record that its normalizer accepts. *)
MushroomUsable(ans) ==
    /\ ans # NoAnswer
    /\ mushroom.pc = "toxic" => ~formatToxicShroomDataThrows(ans)

MushroomRecord(ans) ==
    IF mushroom.pc = "inat" THEN formatINaturalistData(ans)
    ELSE formatToxicShroomData(ans)

(* The other provider, asked when the first one failed (lines 605-611 and
   616-622). *)
MushroomFallback ==
    IF mushroom.pc = "inat" THEN "toxic" ELSE "inat"

MushroomFallbackEnabled ==
    IF mushroom.pc = "inat" THEN enabled["toxicshrooms"] ELSE enabled["inaturalist"]

(* The provider asked by getRandomMushroom answers; the handler goes on at
   line 2342 or in its catch, line 2423, and both end with line 2421 or
   2449. *)
MushroomSettles(ans) ==
    /\ mushroom.pc \in {"inat", "toxic"}
    /\ IF MushroomUsable(ans)
       THEN /\ currentHomePlant' = MushroomRecord(ans)   \* line 2344
            /\ mushroom' = IdleMushroom
            /\ homeRequestInProgress' = LockAfter("returned")
       ELSE IF mushroom.first /\ MushroomFallbackEnabled
       THEN /\ mushroom' = [pc |-> MushroomFallback, first |-> FALSE]
            /\ UNCHANGED <<currentHomePlant, homeRequestInProgress>>
       ELSE /\ mushroom' = IdleMushroom
            /\ homeRequestInProgress' = LockAfter("threw")
            /\ UNCHANGED currentHomePlant
    /\ UNCHANGED <<detailVars, searchVars, normalizeVars>>
    /\ UNCHANGED <<favorites, plantFavorites, selectedPlant, owner, modalContent,
                   clicks, ignored>>
    /\ UNCHANGED browseVars

MushroomAnswers ==
    \E ans \in (IF mushroom.pc = "inat" THEN HomeTaxa ELSE HomeShrooms) \cup {NoAnswer} :
        MushroomSettles(ans)

HomeResponses == {"ok", "429", "net"}

(* Time reaches the deadline of the earliest running timer. *)
DeadlineComes ==
    /\ PendingWakes # {}
    /\ \E t \in PendingWakes :
          /\ \A w \in PendingWakes : t <= w
          /\ t > clock
          /\ clock' = t
    /\ UNCHANGED <<ticks, lsPayload, lsTime, lastApiCallTime, plantCache, calls,
                   invocations, lastWrite>>
    /\ UNCHANGED <<searchVars, normalizeVars, uiVars>>

NextHome ==
    \/ Tick({API_COOLDOWN_MS}) /\ UNCHANGED uiVars
    \/ handleHomeRandomPlant
    \/ handleHomeRandomMushroom
    \/ LookupStep(TimerFires)
    \/ LookupStep(ResponseArrives(HomeResponses, {"ok"}))
    \/ MushroomAnswers
    \/ DeadlineComes

SpecHome == Init /\ [][NextHome]_vars

(* The same with what the browser guarantees: a timer's deadline comes and
   the timer fires, and, as the claim about the lock supposes, every request
   sent is answered in some way. *)
SpecHomeFair ==
    /\ SpecHome
    /\ WF_vars(DeadlineComes)
    /\ WF_vars(LookupStep(TimerFires))
    /\ WF_vars(LookupStep(ResponseArrives(HomeResponses, {"ok"})))
    /\ WF_vars(MushroomAnswers)

-----------------------------------------------------------------------------
(* Properties of the Home tab *)

(* The Home random requests that have been accepted and not yet settled. *)
HomeInFlight ==
    Cardinality({c \in Calls : owner[c] = "home"})
        + (IF mushroom.pc = "idle" THEN 0 ELSE 1)

(* C25: a click on either Home button while homeRequestInProgress is true
   starts no lookup and no mushroom request and leaves currentHomePlant and
   the flag as they were; never are two Home requests in flight. *)
C25_OneHomeRequest ==
    [][ /\ (homeRequestInProgress /\ clicks' = clicks + 1) =>
              /\ UNCHANGED <<currentHomePlant, homeRequestInProgress>>
              /\ UNCHANGED <<calls, invocations, lastApiCallTime, owner, mushroom>>
        /\ HomeInFlight' <= 1
        /\ HomeInFlight' = 1 => homeRequestInProgress'
      ]_vars

C25_Witness ==
    /\ homeRequestInProgress
    /\ ignored >= 1
    /\ HomeInFlight = 1
    /\ \E c \in Calls : owner[c] = "home" /\ calls[c].pc = "fetch"


(* C26: once a Home request has been accepted, homeRequestInProgress
   becomes false again, given that the requests it sent are answered. *)
C26_LockReleased == homeRequestInProgress ~> ~homeRequestInProgress

C26_Witness ==
    /\ ~homeRequestInProgress
    /\ HomeInFlight = 0
    /\ \E c \in Calls :
          /\ calls[c].kind = "random"
          /\ calls[c].pc = "done"
          /\ calls[c].res.status = "threw"
          /\ calls[c].nreq = 1

-----------------------------------------------------------------------------
(* The detail panel: loadPlantDetails(plantId, source), lines 985-1077 *)

(* favorites.find(f => f.id === plantId), lines 1015 and 1776: the first
   favorite with the id, NULL when there is none. *)
FindFavorite(plantId) ==
    LET at == {j \in 1..Len(favorites) : favorites[j].id = plantId}
    IN IF at = {} THEN NULL
       ELSE favorites[CHOOSE j \in at : \A k \in at : j <= k]

(* The record plantCache holds for an id (line 879 stores the displayed
   record). *)
CachedPlant(plantId) == [id |-> plantId, source |-> "memory"]

(* Line 1020: the stand-in for an id nothing is known about. *)
UnknownPlant(plantId) == [id |-> plantId, source |-> "unknown"]

(* loadPlantDetails(plantId): a native (numeric) id with no source given is
   looked up with getPlantDetails and its default retries = 1 (line 1010);
   any other id is served at once from plantCache, from favorites or by the
   stand-in (lines 1011-1026), and selectedPlant is assigned (line 1028). *)
loadPlantDetails(plantId) ==
    /\ clicks < MaxClicks
    /\ clicks' = clicks + 1
    /\ IF plantId.prefix = ""
       THEN /\ \E c \in Calls :
                  /\ Start(c, "details", plantId, 1)
                  /\ Resume([owner EXCEPT ![c] = "panel"], homeRequestInProgress,
                            selectedPlant, modalContent)
       ELSE /\ selectedPlant' =
                  IF plantId \in plantCache THEN CachedPlant(plantId)
                  ELSE IF FindFavorite(plantId) # NULL THEN FindFavorite(plantId)
                  ELSE UnknownPlant(plantId)
            /\ plantCache' =
                  IF plantId \notin plantCache /\ FindFavorite(plantId) # NULL
                  THEN plantCache \cup {plantId} ELSE plantCache
            /\ UNCHANGED <<clock, ticks, lsPayload, lsTime, lastApiCallTime, calls,
                           invocations, lastWrite>>
            /\ UNCHANGED <<searchVars, normalizeVars>>
            /\ UNCHANGED <<currentHomePlant, homeRequestInProgress, owner,
                           modalContent>>
    /\ UNCHANGED <<favorites, plantFavorites, mushroom, ignored>>
    /\ UNCHANGED browseVars

PanelResponses == {"ok", "net"}

NextPanel ==
    \/ Tick(ShortSteps) /\ UNCHANGED uiVars
    \/ \E i \in Ids : loadPlantDetails(i)
    \/ LookupStep(TimerFires)
    \/ LookupStep(ResponseArrives(PanelResponses, {"ok"}))
    \/ DeadlineComes

SpecPanel == Init /\ [][NextPanel]_vars

(* C27: when loadPlantDetails was invoked for a plant (slot A) and then for
   another (slot B) before the first lookup settled, and both lookups have
   settled with the second one returning, selectedPlant is the plant of the
   second invocation. *)
C27_LastRequestWins ==
    (/\ calls["A"].pc = "done" /\ calls["B"].pc = "done"
     /\ calls["A"].seq < calls["B"].seq
     /\ calls["B"].seq = invocations
     /\ clicks = invocations
     /\ calls["B"].res.status = "returned")
        => selectedPlant.id = calls["B"].id

-----------------------------------------------------------------------------
(* Favorites: toggleDetailPanelFavorite (lines 1586-1602), removeFavorite
   (lines 1619-1629), toggleModalPlantFavorite (lines 1977-1993),
   addHomePlantToFavorites (lines 2244-2256), the dev-clear-favorites
   handler (lines 3071-3079) *)

MaxFavorites == 3

(* Line 22, what a reload makes of the stored key:
   JSON.parse(localStorage.getItem('plantFavorites')) || []. *)
LoadFavorites ==
    IF plantFavorites = NULL THEN <<>> ELSE JSONparse(plantFavorites)

(* favorites.some(fav => fav.id === plant.id), lines 1589, 1980, 2245. *)
IsFavorite_Never(plant) == FALSE

IsFavorite(plant) == \E j \in 1..Len(favorites) : favorites[j].id = plant.id

(* updateFavoritesUI, lines 1631-1689: a card is made for every favorite,
   and createPlantCard remembers the record in plantCache (line 879). *)
FavoriteCards(list) == plantCache \cup {list[j].id : j \in 1..Len(list)}

(* What localStorage.setItem does: it stores the string, or throws
   (QuotaExceededError) and stores nothing, as lines 144-150 provide for. *)
SetItemOutcomes == {"ok", "fail"}

(* favorites.push(plant); localStorage.setItem(...); updateFavoritesUI(),
   lines 1596-1598, 1987-1989 and 2246-2248, none of them in a try: when
   setItem throws, the handler ends there. *)
PushFavorite(plant, st) ==
    /\ Len(favorites) < MaxFavorites
    /\ favorites' = Append(favorites, plant)
    /\ IF st = "ok"
       THEN /\ plantFavorites' = JSONstringify(favorites')
            /\ plantCache' = FavoriteCards(favorites')
       ELSE UNCHANGED <<plantFavorites, plantCache>>

(* removeFavorite(plantId), lines 1619-1629.  The string written is no
   longer than the one it replaces. *)
removeFavorite(plantId) ==
    LET Keep(fav) == fav.id # plantId
    IN /\ favorites' = SelectSeq(favorites, Keep)
       /\ plantFavorites' = JSONstringify(favorites')
       /\ plantCache' = FavoriteCards(favorites')

FavoritesFrame ==
    /\ UNCHANGED <<clock, ticks, lsPayload, lsTime, lastApiCallTime, calls,
                   invocations, lastWrite>>
    /\ UNCHANGED <<searchVars, normalizeVars>>
    /\ UNCHANGED <<selectedPlant, currentHomePlant, homeRequestInProgress, owner,
                   mushroom, modalContent, clicks, ignored>>
    /\ UNCHANGED browseVars

(* The button of the detail panel and the button of the modal run the same
   statements on selectedPlant; `confirmed` is the answer to confirm(). *)
ToggleFavorite(confirmed, st) ==
    /\ selectedPlant # NULL
    /\ IF IsFavorite(selectedPlant)
       THEN IF confirmed THEN removeFavorite(selectedPlant.id)
            ELSE UNCHANGED <<favorites, plantFavorites, plantCache>>
       ELSE PushFavorite(selectedPlant, st)
    /\ FavoritesFrame

toggleDetailPanelFavorite ==
    \E confirmed \in BOOLEAN, st \in SetItemOutcomes : ToggleFavorite(confirmed, st)

toggleModalPlantFavorite ==
    \E confirmed \in BOOLEAN, st \in SetItemOutcomes : ToggleFavorite(confirmed, st)

addHomePlantToFavorites ==
    /\ currentHomePlant # NULL
    /\ ~IsFavorite(currentHomePlant)
    /\ \E st \in SetItemOutcomes : PushFavorite(currentHomePlant, st)
    /\ FavoritesFrame

(* The remove button of a favorite's card, lines 1677-1680. *)
RemoveButton ==
    /\ \E j \in 1..Len(favorites) : removeFavorite(favorites[j].id)
    /\ FavoritesFrame

(* The dev panel's "clear favorites", confirmed: lines 3073-3075. *)
ClearFavorites ==
    /\ favorites' = <<>>
    /\ plantFavorites' = NULL
    /\ UNCHANGED plantCache
    /\ FavoritesFrame

FavoriteIds == {PerenualId(1), PrefixedId("inat_", 1)}

NextFavorites ==
    \/ \E i \in FavoriteIds : loadPlantDetails(i)
    \/ LookupStep(ResponseArrives({"ok"}, {"ok"}))
    \/ LookupStep(TimerFires)
    \/ DeadlineComes
    \/ handleHomeRandomMushroom
    \/ MushroomAnswers
    \/ toggleDetailPanelFavorite
    \/ toggleModalPlantFavorite
    \/ addHomePlantToFavorites
    \/ RemoveButton
    \/ ClearFavorites

SpecFavorites == Init /\ [][NextFavorites]_vars

(* C23: in every state the list stored under plantFavorites deserializes,
   as line 22 does it on a reload, to the in-memory favorites list. *)
C23_FavoritesPersist == LoadFavorites = favorites

(* C28: no two entries of favorites have the same id. *)
C28_NoDuplicateFavorites ==
    \A i, j \in 1..Len(favorites) : favorites[i].id = favorites[j].id => i = j

C28_Witness ==
    /\ Len(favorites) >= 2
    /\ selectedPlant # NULL
    /\ currentHomePlant # NULL
    /\ \E j \in 1..Len(favorites) : favorites[j] = selectedPlant
    /\ \E j \in 1..Len(favorites) : favorites[j] = currentHomePlant
    /\ selectedPlant.id # currentHomePlant.id

-----------------------------------------------------------------------------
(* The Browse tab: performSearch (lines 1997-2033), performFungiSearch
   (lines 2625-2698), the handlers that call them (lines 959-967,
   2067-2120, 2472-2511) *)

MaxPage == 3

BrowseFrame ==
    /\ UNCHANGED detailVars
    /\ UNCHANGED <<enabled, search, promise, response, results, combined>>
    /\ UNCHANGED normalizeVars
    /\ UNCHANGED <<favorites, plantFavorites, selectedPlant, currentHomePlant,
                   homeRequestInProgress, owner, mushroom, modalContent, ignored>>

(* performFungiSearch(page) up to its first await: searchINaturalist sends
   its request unless the source is disabled (lines 366-368). *)
StartFungiSearch(via, asked, page) ==
    /\ browse' = [pc |-> "inat", by |-> "fungi", via |-> via, asked |-> asked,
                  page |-> page, at |-> clicks + 1]
    /\ fetchCount' = IF enabled["inaturalist"]
                     THEN [fetchCount EXCEPT !["inaturalist"] = @ + 1]
                     ELSE fetchCount

(* The page performSearch hands to performFungiSearch: line 2000 calls it
   without an argument, so the default of line 2625 applies. *)
DelegatedPage(page) == 1

(* performSearch(page) up to its first await: line 1999 delegates when the
   mode is 'fungi' and currentSearch is not empty; in any other case
   getPlantList(page, filters) asks Perenual (line 2014). *)
StartSearchFor(query, page) ==
    IF browseSearchMode = "fungi" /\ query # <<>>
    THEN StartFungiSearch("performSearch", page, DelegatedPage(page))
    ELSE /\ browse' = [pc |-> "list", by |-> "plants", via |-> "performSearch",
                       asked |-> page, page |-> page, at |-> clicks + 1]
         /\ fetchCount' = [fetchCount EXCEPT !["perenual"] = @ + 1]

(* The search button and Enter in the search box, lines 2067-2079. *)
SearchButton(text) ==
    /\ clicks < MaxClicks
    /\ browse.pc = "idle"
    /\ clicks' = clicks + 1
    /\ currentSearch' = trim(text)
    /\ StartSearchFor(trim(text), 1)
    /\ UNCHANGED <<browseSearchMode, pagination>>
    /\ BrowseFrame

(* A page button, previous, next or the page input, lines 959-967 and
   2093-2120: they are there once a search has shown its page controls. *)
PageButton(page) ==
    /\ clicks < MaxClicks
    /\ browse.pc = "idle"
    /\ pagination
    /\ clicks' = clicks + 1
    /\ StartSearchFor(currentSearch, page)
    /\ UNCHANGED <<browseSearchMode, currentSearch, pagination>>
    /\ BrowseFrame

(* A search-mode button, lines 2472-2511: the box and the results are
   cleared, and the fungi mode loads its first page. *)
SearchModeButton(mode) ==
    /\ clicks < MaxClicks
    /\ browse.pc = "idle"
    /\ clicks' = clicks + 1
    /\ browseSearchMode' = mode
    /\ currentSearch' = <<>>
    /\ pagination' = FALSE
    /\ IF mode = "fungi"
       THEN StartFungiSearch("performFungiSearch", 1, 1)
       ELSE UNCHANGED <<browse, fetchCount>>
    /\ BrowseFrame

(* The running search gets its answer.  After iNaturalist, performFungiSearch
   asks Toxic Shrooms when that source is enabled (lines 2650-2652); the
   page controls are shown when the results are many enough (lines 2677-2682
   and updatePagination) and stay as they are when the search failed. *)
BrowseSettles(shown) ==
    /\ browse.pc # "idle"
    /\ IF browse.pc = "inat" /\ enabled["toxicshrooms"]
       THEN /\ browse' = [browse EXCEPT !.pc = "toxic"]
            /\ fetchCount' = [fetchCount EXCEPT !["toxicshrooms"] = @ + 1]
            /\ UNCHANGED pagination
       ELSE /\ browse' = [browse EXCEPT !.pc = "idle"]
            /\ pagination' = shown
            /\ UNCHANGED fetchCount
    /\ UNCHANGED <<browseSearchMode, currentSearch, clicks>>
    /\ BrowseFrame

NextBrowse ==
    \/ \E text \in {<<>>, <<"A">>, <<" ">>} : SearchButton(text)
    \/ \E page \in 1..MaxPage : PageButton(page)
    \/ \E mode \in {"plants", "fungi"} : SearchModeButton(mode)
    \/ \E shown \in BOOLEAN : BrowseSettles(shown)

SpecBrowse == Init /\ [][NextBrowse]_vars

(* C29: a performSearch(page) made while browseSearchMode is 'fungi' is
   served by performFungiSearch with that page, and no request goes to the
   Perenual species list. *)
C29_FungiDelegation ==
    [][ (/\ clicks' = clicks + 1
         /\ browse'.at = clicks'
         /\ browse'.via = "performSearch"
         /\ browseSearchMode = "fungi")
            => /\ browse'.by = "fungi"
               /\ browse'.page = browse'.asked
               /\ fetchCount'["perenual"] = fetchCount["perenual"]
      ]_vars

-----------------------------------------------------------------------------
(* The modal: openPlantModal(plantId) (lines 1744-1834) and
   showFungiDetails(fungi) (lines 2895-2976) *)

ModalFrame ==
    /\ UNCHANGED <<favorites, plantFavorites, currentHomePlant, mushroom, ignored>>
    /\ UNCHANGED browseVars

(* openPlantModal(plantId) called with selectedPlant = sel, its caller
   writing `content` into the modal right after the call (the caller of
   line 2897 does, a click on a card does not and leaves the spinner of
   line 1751).  A prefixed id is served at once from the stored payload, no
   matter its age, from plantCache or from favorites, or fails (lines
   1763-1783); any other id is awaited from getPlantDetails (line 1786). *)
OpenModal(plantId, sel, content) ==
    IF isNonPerenual(plantId)
    THEN /\ LET plant == IF lsPayload[plantId] # NULL THEN JSONparse(lsPayload[plantId])
                         ELSE IF plantId \in plantCache THEN CachedPlant(plantId)
                         ELSE FindFavorite(plantId)
            IN IF plant # NULL
               THEN selectedPlant' = plant /\ modalContent' = "plant"
               ELSE selectedPlant' = sel /\ modalContent' = "error"
         /\ UNCHANGED detailVars
         /\ UNCHANGED <<searchVars, normalizeVars>>
         /\ UNCHANGED <<homeRequestInProgress, owner>>
    ELSE \E c \in Calls :
            /\ Start(c, "details", plantId, 1)
            /\ Resume([owner EXCEPT ![c] = "modal"], homeRequestInProgress, sel,
                      content)

openPlantModal(plantId) ==
    /\ clicks < MaxClicks
    /\ clicks' = clicks + 1
    /\ OpenModal(plantId, selectedPlant, "loading")
    /\ ModalFrame

(* The records the Fungi tab shows: what the normalizers made of the
   answers of iNaturalist and Toxic Shrooms. *)
FungiRecords ==
    {formatINaturalistData(t) : t \in HomeTaxa}
        \cup {formatToxicShroomData(Shroom(Str(<<"A">>), Absent))}

(* showFungiDetails(fungi): line 2896 assigns selectedPlant, line 2897
   calls openPlantModal(null), and lines 2899-2973 write the details of
   the fungus into the modal. *)
showFungiDetails(fungi) ==
    /\ clicks < MaxClicks
    /\ clicks' = clicks + 1
    /\ OpenModal(NullId, fungi, "fungi")
    /\ ModalFrame

ModalResponses == {"ok", "status", "net"}

NextModal ==
    \/ \E f \in FungiRecords : showFungiDetails(f)
    \/ \E i \in Ids : openPlantModal(i)
    \/ CreatePlantCard /\ UNCHANGED uiVars
    \/ LookupStep(TimerFires)
    \/ LookupStep(ResponseArrives(ModalResponses, {"ok"}))
    \/ DeadlineComes

SpecModal == Init /\ [][NextModal]_vars

(* C30: when showFungiDetails(fungi) is all that was done and the lookup it
   started has ended, selectedPlant is that fungus, the modal shows its
   details, and no request was sent to Perenual. *)
C30_FungusStaysShown ==
    (/\ clicks = 1
     /\ \E c \in Calls : calls[c].id = NullId /\ calls[c].pc = "done")
        => /\ selectedPlant \in FungiRecords
           /\ modalContent = "fungi"
           /\ \A c \in Calls : calls[c].nreq = 0

====
